---------------------------- MODULE Spec2Model ----------------------------
(***************************************************************************)
(* A model of src/app.py: the dataset loader (load_all_data), the profile  *)
(* joiner (get_person_info), the prompt assembler and generation client    *)
(* (generate_email) and the interactive flow (main) that a script run of   *)
(* the page executes top to bottom.                                        *)
(*                                                                         *)
(* Text is modelled as a sequence of tokens (each token a piece of the     *)
(* text); concatenation of text is \o and the empty text is << >>.         *)
(***************************************************************************)
EXTENDS Integers, Sequences, FiniteSets, TLC

(***************************************************************************)
(* Bounds of the model.                                                    *)
(***************************************************************************)
MaxRows == 2
MaxInstructionLen == 2

(***************************************************************************)
(* Values the tables are filled with.                                      *)
(***************************************************************************)
Names == {"Jane Doe", "John Smith"}
Persons == Names \cup {"Nobody"}
Companies == {"Acme", "Globex"}
RowTags == <<"row1", "row2", "row3", "row4", "row5", "row6">>

NoRecord == [none |-> TRUE]
NoError == [none |-> TRUE]

SeqsUpTo(S, n) == UNION {[1..k -> S] : k \in 0..n}

(***************************************************************************)
(* A table is the set of its columns and the sequence of its rows, in      *)
(* source order.  A row holds a value for every column the table has.      *)
(* The non-key column of each row (title, summary, headline) carries the   *)
(* row's position, so that any two rows of a table are told apart.         *)
(***************************************************************************)
LinkedinColumns == {"name", "company", "title"}
WebsiteColumns == {"company_name", "summary"}
NewsColumns == {"related_company", "headline"}

Restrict(row, columns) == [c \in (DOMAIN row) \cap columns |-> row[c]]

LinkedinTable(keys, columns) ==
    [columns |-> columns,
     rows |-> [i \in 1..Len(keys) |->
                 Restrict([name |-> keys[i][1], company |-> keys[i][2],
                           title |-> RowTags[i]], columns)]]

WebsiteTable(keys, columns) ==
    [columns |-> columns,
     rows |-> [i \in 1..Len(keys) |->
                 Restrict([company_name |-> keys[i], summary |-> RowTags[i]],
                          columns)]]

NewsTable(keys, columns) ==
    [columns |-> columns,
     rows |-> [i \in 1..Len(keys) |->
                 Restrict([related_company |-> keys[i], headline |-> RowTags[i]],
                          columns)]]

(* At most one column of the three tables is missing. *)
ColumnChoices ==
    {<<LinkedinColumns, WebsiteColumns, NewsColumns>>,
     <<LinkedinColumns \ {"name"}, WebsiteColumns, NewsColumns>>,
     <<LinkedinColumns \ {"company"}, WebsiteColumns, NewsColumns>>,
     <<LinkedinColumns, WebsiteColumns \ {"company_name"}, NewsColumns>>,
     <<LinkedinColumns, WebsiteColumns, NewsColumns \ {"related_company"}>>}

AllData ==
    {[linkedin |-> LinkedinTable(lk, cc[1]),
      website |-> WebsiteTable(wk, cc[2]),
      news |-> NewsTable(nk, cc[3])] :
        lk \in SeqsUpTo(Names \X Companies, MaxRows),
        wk \in SeqsUpTo(Companies, MaxRows),
        nk \in SeqsUpTo(Companies, MaxRows),
        cc \in ColumnChoices}

(***************************************************************************)
(* get_person_info (src/app.py 33-58).                                     *)
(*                                                                         *)
(* table[table[column] == value]: the rows whose column equals the value,  *)
(* in table order; a KeyError when the table has no such column.           *)
(* .iloc[0]: the first of them; an IndexError when there is none.          *)
(***************************************************************************)
IndexErrorText == <<"single positional indexer is out-of-bounds">>
KeyErrorText(column) == <<"'", column, "'">>

HasColumn(table, column) == column \in table.columns

(* The filter left out: every row of the table. *)
MatchingUnfiltered(table, column, value) == table.rows

Matching(table, column, value) ==
    SelectSeq(table.rows, LAMBDA row : row[column] = value)

(* The last row instead of the first. *)
IlocLast(rows) == rows[Len(rows)]

Iloc0(rows) == rows[1]

(* A lookup that falls back to the first row of the table when no row *)
(* matches.                                                          *)
LookupWithFallback(table, column, value) ==
    IF ~HasColumn(table, column)
    THEN [raised |-> TRUE, text |-> KeyErrorText(column), row |-> NoRecord]
    ELSE IF Len(table.rows) = 0
    THEN [raised |-> TRUE, text |-> IndexErrorText, row |-> NoRecord]
    ELSE IF Len(Matching(table, column, value)) = 0
    THEN [raised |-> FALSE, text |-> << >>, row |-> Iloc0(table.rows)]
    ELSE [raised |-> FALSE, text |-> << >>,
          row |-> Iloc0(Matching(table, column, value))]

(* The outcome of one lookup: the row, or the exception raised. *)
Lookup(table, column, value) ==
    IF ~HasColumn(table, column)
    THEN [raised |-> TRUE, text |-> KeyErrorText(column), row |-> NoRecord]
    ELSE IF Len(Matching(table, column, value)) = 0
    THEN [raised |-> TRUE, text |-> IndexErrorText, row |-> NoRecord]
    ELSE [raised |-> FALSE, text |-> << >>,
          row |-> Iloc0(Matching(table, column, value))]

(* The except clause of get_person_info: one handler for the whole body.  *)
(* It shows "Error retrieving comprehensive information: " and str(e) and *)
(* returns None.  The message names no stage; raisedAt records the        *)
(* statement that raised and is not part of what the function reports.    *)
RetrievalFailure(text, raisedAt) ==
    [info |-> NoRecord,
     error |-> [marker |-> "Error retrieving comprehensive information: ",
                detail |-> text,
                stage |-> "unstaged"],
     raisedAt |-> raisedAt]

(* The news lookup made before the company lookup. *)
get_person_info_news_first(person_name, all_data) ==
    LET linkedin == Lookup(all_data.linkedin, "name", person_name)
    IN  IF linkedin.raised
        THEN RetrievalFailure(linkedin.text, "profile")
        ELSE IF "company" \notin DOMAIN linkedin.row
        THEN RetrievalFailure(KeyErrorText("company"), "profile")
        ELSE
        LET company_name == linkedin.row["company"]
            news == Lookup(all_data.news, "related_company", company_name)
        IN  IF news.raised
            THEN RetrievalFailure(news.text, "news")
            ELSE
            LET website == Lookup(all_data.website, "company_name", company_name)
            IN  IF website.raised
                THEN RetrievalFailure(website.text, "company")
                ELSE [info |-> [person |-> linkedin.row,
                                company |-> website.row,
                                news |-> news.row],
                      error |-> NoError,
                      raisedAt |-> "none"]

get_person_info(person_name, all_data) ==
    LET linkedin == Lookup(all_data.linkedin, "name", person_name)
    IN  IF linkedin.raised
        THEN RetrievalFailure(linkedin.text, "profile")
        ELSE IF "company" \notin DOMAIN linkedin.row
        THEN RetrievalFailure(KeyErrorText("company"), "profile")
        ELSE
        LET company_name == linkedin.row["company"]
            website == Lookup(all_data.website, "company_name", company_name)
        IN  IF website.raised
            THEN RetrievalFailure(website.text, "company")
            ELSE
            LET news == Lookup(all_data.news, "related_company", company_name)
            IN  IF news.raised
                THEN RetrievalFailure(news.text, "news")
                ELSE [info |-> [person |-> linkedin.row,
                                company |-> website.row,
                                news |-> news.row],
                      error |-> NoError,
                      raisedAt |-> "none"]

(***************************************************************************)
(* generate_email (src/app.py 60-117).                                     *)
(***************************************************************************)
generation_config ==
    [temperature |-> "0.7", top_p |-> "0.95", top_k |-> "40",
     max_output_tokens |-> "1024"]

NoConfig == [none |-> TRUE]

(* genai.GenerativeModel(model_name="gemini-1.5-flash"): the two keyword  *)
(* arguments generation_config and safety_settings are commented out, so  *)
(* the model, and every request made through it, carries neither.         *)
GenerativeModel ==
    [model_name |-> "gemini-1.5-flash", generation_config |-> NoConfig]

(* data.items() and info.items() iterate in insertion order: the three    *)
(* categories as get_person_info put them, the columns in table order.    *)
CategoryOrder == <<"person", "company", "news">>
ColumnOrder ==
    [person |-> <<"name", "company", "title">>,
     company |-> <<"company_name", "summary">>,
     news |-> <<"related_company", "headline">>]

Upper(category) ==
    CASE category = "person" -> "PERSON"
      [] category = "company" -> "COMPANY"
      [] category = "news" -> "NEWS"

RECURSIVE Join(_, _)
Join(lines, separator) ==
    IF Len(lines) = 0 THEN << >>
    ELSE IF Len(lines) = 1 THEN lines[1]
    ELSE lines[1] \o separator \o Join(Tail(lines), separator)

Items(category, info) ==
    SelectSeq(ColumnOrder[category], LAMBDA key : key \in DOMAIN info)

FieldLines(category, info) ==
    [i \in 1..Len(Items(category, info)) |->
        <<Items(category, info)[i], ": ", info[Items(category, info)[i]]>>]

Section(category, info) ==
    <<"\n--- ", Upper(category), " INFORMATION ---\n">>
        \o Join(FieldLines(category, info), <<"\n">>) \o <<"\n">>

RECURSIVE DataStr(_, _)
DataStr(data, categories) ==
    IF Len(categories) = 0 THEN << >>
    ELSE Section(categories[1], data[categories[1]])
            \o DataStr(data, Tail(categories))

TemplateHead == <<"\n        Based on the following data:\n        \n        ">>
TemplateMiddle ==
    <<"\n        \n        And following these instructions:\n        ">>
TemplateTail ==
    <<"\n        \n        Generate a professional email with:\n",
      "        1. A compelling subject line\n",
      "        2. A personalized greeting\n",
      "        3. Email body that incorporates the data effectively\n",
      "        4. A professional closing\n",
      "        \n        Format the response as:\n        \n",
      "        Subject: [Subject Line]\n        \n",
      "        [Email Body]\n        \n",
      "        [Signature]\n        ">>

(* The instructions cut to their first token. *)
FullPromptTruncated(data, prompt) ==
    TemplateHead \o DataStr(data, CategoryOrder) \o TemplateMiddle
        \o (IF Len(prompt) = 0 THEN prompt ELSE <<Head(prompt)>>) \o TemplateTail

FullPrompt(data, prompt) ==
    TemplateHead \o DataStr(data, CategoryOrder) \o TemplateMiddle
        \o prompt \o TemplateTail

(* What the service does with one request: it answers with a text, it     *)
(* answers with a response that holds no text (response.text raises), or  *)
(* the call fails.                                                        *)
ResponseTexts ==
    {<<"Subject: Hello">>, << >>, <<"  ", "Subject: Hello", "\n">>,
     <<"Error generating email: ", "not really">>}
ServiceErrors == {<<"403 API key not valid">>, <<"timed out">>, << >>}
ServiceOutcomes ==
    {[kind |-> "text", text |-> t] : t \in ResponseTexts}
        \cup {[kind |-> "blocked", text |-> <<"response.text requires a valid Part">>]}
        \cup {[kind |-> "failed", text |-> e] : e \in ServiceErrors}

ErrorMarker == <<"Error generating email: ">>

InstructionTokens == {"Write a short networking email.", "  "}
Instructions == SeqsUpTo(InstructionTokens, MaxInstructionLen)

Request(model, contents) ==
    [model_name |-> model.model_name,
     generation_config |-> model.generation_config,
     contents |-> contents]

(* The body of the try block: the returned text or the exception raised,  *)
(* and the requests sent.  data.items() raises when data is None.         *)
TryGenerate(data, prompt, outcome) ==
    IF data = NoRecord
    THEN [raised |-> TRUE,
          text |-> <<"'NoneType' object has no attribute 'items'">>,
          sent |-> << >>]
    ELSE [raised |-> outcome.kind # "text",
          text |-> outcome.text,
          sent |-> <<Request(GenerativeModel, FullPrompt(data, prompt))>>]

(* The text of the response returned with its surrounding blanks removed. *)
RECURSIVE Strip(_)
Strip(text) ==
    IF Len(text) = 0 THEN text
    ELSE IF text[1] \in {"  ", "\n"} THEN Strip(Tail(text))
    ELSE IF text[Len(text)] \in {"  ", "\n"} THEN Strip(SubSeq(text, 1, Len(text) - 1))
    ELSE text

generate_email_stripped(data, prompt, outcome) ==
    LET try == TryGenerate(data, prompt, outcome)
    IN  IF try.raised
        THEN [raised |-> FALSE, text |-> ErrorMarker \o try.text, sent |-> try.sent]
        ELSE [raised |-> FALSE, text |-> Strip(try.text), sent |-> try.sent]

(* except Exception: whatever the body raised is returned as text behind  *)
(* the marker; nothing is raised to the caller.                           *)
generate_email(data, prompt, outcome) ==
    LET try == TryGenerate(data, prompt, outcome)
    IN  IF try.raised
        THEN [raised |-> FALSE, text |-> ErrorMarker \o try.text, sent |-> try.sent]
        ELSE [raised |-> FALSE, text |-> try.text, sent |-> try.sent]


(***************************************************************************)
(* State.                                                                  *)
(***************************************************************************)
VARIABLES
    api_key_configured,  \* st.session_state.api_key_configured
    files,         \* the three CSV files of the data directory
    pc,            \* position of the running call or script run
    api_key,       \* the text of the API key input
    clicked,       \* the button whose click started the script run
    configure_raises,  \* whether genai.configure raises in this run
    ui,            \* the messages the script run has shown
    all_data,      \* the three tables loaded, or handed to get_person_info
    person_name,   \* the person identifier selected or looked up
    resolved,      \* what get_person_info returned and reported
    email_prompt,  \* the instructions handed to generate_email
    generated,     \* what generate_email returned, or that it raised
    requests       \* the requests the running call sent to the service

session == <<api_key_configured, files>>
inputs == <<api_key, clicked, configure_raises>>
locals == <<all_data, person_name, resolved, email_prompt, generated, requests>>
vars == <<session, pc, inputs, ui, locals>>

NoData == [none |-> TRUE]
NoFiles == [none |-> TRUE]
NoPerson == "None"

NotCalled == [info |-> NoRecord, error |-> NoError, raisedAt |-> "none"]
NoOutcome == [kind |-> "none", text |-> << >>]
NotGenerated == [raised |-> FALSE, text |-> << >>, service |-> NoOutcome]

(* What a call of generate_email left: its result, and the outcome of the *)
(* request when it sent one.                                              *)
Generated(call, outcome) ==
    [raised |-> call.raised, text |-> call.text,
     service |-> IF call.sent = << >> THEN NoOutcome ELSE outcome]

(* The variables of the interactive flow, for a function called alone. *)
NoFlow ==
    /\ api_key_configured = TRUE
    /\ files = NoFiles
    /\ api_key = << >>
    /\ clicked = "none"
    /\ configure_raises = FALSE
    /\ ui = {}

(***************************************************************************)
(* get_person_info applied to every table set and person of the bounds.    *)
(***************************************************************************)
InitResolve ==
    /\ NoFlow
    /\ pc = "ready"
    /\ all_data \in AllData
    /\ person_name = "Nobody"
    /\ resolved = NotCalled
    /\ email_prompt = << >>
    /\ generated = NotGenerated
    /\ requests = << >>

Resolve ==
    /\ pc = "ready"
    /\ \E p \in Persons :
        /\ person_name' = p
        /\ resolved' = get_person_info(p, all_data)
    /\ pc' = "resolved"
    /\ UNCHANGED <<session, inputs, ui, all_data, email_prompt, generated, requests>>

NextResolve == Resolve

SpecResolve == InitResolve /\ [][NextResolve]_vars


(***************************************************************************)
(* generate_email applied to every combined record get_person_info can     *)
(* return within the bounds (and to None), every instructions text of the  *)
(* bounds, and every outcome of the service.                               *)
(***************************************************************************)
CombinedRecords ==
    {get_person_info(p, d).info : p \in Persons, d \in AllData}

InitGenerate ==
    /\ NoFlow
    /\ pc = "ready"
    /\ all_data = NoData
    /\ person_name = "Nobody"
    /\ \E info \in CombinedRecords :
          resolved = [info |-> info, error |-> NoError, raisedAt |-> "none"]
    /\ email_prompt \in Instructions
    /\ generated = NotGenerated
    /\ requests = << >>

Generate ==
    /\ pc = "ready"
    /\ \E outcome \in ServiceOutcomes :
        LET call == generate_email(resolved.info, email_prompt, outcome)
        IN  /\ generated' = Generated(call, outcome)
            /\ requests' = call.sent
    /\ pc' = "generated"
    /\ UNCHANGED <<session, inputs, ui, all_data, person_name, resolved, email_prompt>>

NextGenerate == Generate

SpecGenerate == InitGenerate /\ [][NextGenerate]_vars

(***************************************************************************)
(* load_all_data (src/app.py 17-31).                                       *)
(*                                                                         *)
(* pd.read_csv raises for a file that is absent or cannot be parsed, and   *)
(* returns the table otherwise, whatever its columns are.                  *)
(***************************************************************************)
ReadCsvErrorText(file) ==
    IF file.status = "absent"
    THEN <<"[Errno 2] No such file or directory">>
    ELSE <<"No columns to parse from file">>

ReadCsv(file) ==
    IF file.status # "ok"
    THEN [raised |-> TRUE, text |-> ReadCsvErrorText(file), table |-> NoData]
    ELSE [raised |-> FALSE, text |-> << >>, table |-> file.table]

LoadFailure(text) ==
    [data |-> NoData,
     error |-> [marker |-> "Error loading data: ", detail |-> text]]

load_all_data(csv) ==
    LET linkedin_data == ReadCsv(csv.linkedin)
        website_data == ReadCsv(csv.website)
        news_data == ReadCsv(csv.news)
    IN  IF linkedin_data.raised THEN LoadFailure(linkedin_data.text)
        ELSE IF website_data.raised THEN LoadFailure(website_data.text)
        ELSE IF news_data.raised THEN LoadFailure(news_data.text)
        ELSE [data |-> [linkedin |-> linkedin_data.table,
                        website |-> website_data.table,
                        news |-> news_data.table],
              error |-> NoError]

(***************************************************************************)
(* main (src/app.py 119-221): one script run of the page, top to bottom.   *)
(* A run starts when the user interacts with the page; the session state   *)
(* outlives the run, everything else is local to it.                       *)
(***************************************************************************)
FileStatus == {"ok", "absent", "unreadable"}

ExampleKeys ==
    {[linkedin |-> <<<<"Jane Doe", "Acme">>, <<"John Smith", "Globex">>>>,
      website |-> <<"Acme">>, news |-> <<"Acme">>],
     [linkedin |-> << >>, website |-> <<"Acme">>, news |-> <<"Acme">>]}

DataDirectories ==
    {[linkedin |-> [status |-> st[1], table |-> LinkedinTable(k.linkedin, cc[1])],
      website |-> [status |-> st[2], table |-> WebsiteTable(k.website, cc[2])],
      news |-> [status |-> st[3], table |-> NewsTable(k.news, cc[3])]] :
        st \in FileStatus \X FileStatus \X FileStatus,
        k \in ExampleKeys,
        cc \in ColumnChoices}

ApiKeys == {<< >>, <<"AIza-key">>}
Buttons == {"none", "Configure API", "Generate Email"}

InitMain ==
    /\ api_key_configured = FALSE
    /\ files \in DataDirectories
    /\ pc = "done"
    /\ api_key = << >>
    /\ clicked = "none"
    /\ configure_raises = FALSE
    /\ ui = {}
    /\ all_data = NoData
    /\ person_name = NoPerson
    /\ resolved = NotCalled
    /\ email_prompt = << >>
    /\ generated = NotGenerated
    /\ requests = << >>

(* The user interacts with the page and the script runs again. *)
StartRun ==
    /\ pc = "done"
    /\ pc' = "sidebar"
    /\ api_key' \in ApiKeys
    /\ clicked' \in Buttons
    /\ configure_raises' \in BOOLEAN
    /\ ui' = {}
    /\ all_data' = NoData
    /\ person_name' = NoPerson
    /\ resolved' = NotCalled
    /\ email_prompt' = << >>
    /\ generated' = NotGenerated
    /\ requests' = << >>
    /\ UNCHANGED session

(* Lines 124-136: the API key input and the Configure API button. *)
Sidebar ==
    /\ pc = "sidebar"
    /\ pc' = "gate"
    /\ IF clicked = "Configure API"
       THEN IF api_key # << >>
            THEN IF ~configure_raises
                 THEN /\ api_key_configured' = TRUE
                      /\ ui' = ui \cup {"success: API key configured successfully!"}
                 ELSE /\ api_key_configured' = api_key_configured
                      /\ ui' = ui \cup {"error: Error configuring API key"}
            ELSE /\ api_key_configured' = api_key_configured
                 /\ ui' = ui \cup {"error: Please enter a valid API key"}
       ELSE UNCHANGED <<api_key_configured, ui>>
    /\ UNCHANGED <<files, inputs, locals>>

(* The page without the check of the flag. *)
GateOpen ==
    /\ pc = "gate"
    /\ pc' = "load"
    /\ UNCHANGED <<session, inputs, ui, locals>>

(* Lines 138-148: nothing below is run until the key is configured. *)
Gate ==
    /\ pc = "gate"
    /\ IF ~api_key_configured
       THEN /\ ui' = ui \cup {"info: Please configure your Google API key"}
            /\ pc' = "done"
       ELSE /\ ui' = ui
            /\ pc' = "load"
    /\ UNCHANGED <<session, inputs, locals>>

(* Lines 150-153 and 220-221. *)
Load ==
    /\ pc = "load"
    /\ LET loaded == load_all_data(files)
       IN  /\ all_data' = loaded.data
           /\ IF loaded.data = NoData
              THEN /\ ui' = ui \cup {"error: Error loading data",
                                     "error: Could not load data"}
                   /\ pc' = "done"
              ELSE /\ ui' = ui
                   /\ pc' = "select"
    /\ UNCHANGED <<session, inputs, person_name, resolved, email_prompt,
                   generated, requests>>

(* Lines 154-160: the list of names and the selection.  The read of the   *)
(* name column is outside any try block: without the column the run ends  *)
(* with the KeyError.  The select box gives None for an empty list.       *)
PeopleList(data) ==
    {data.linkedin.rows[i]["name"] : i \in 1..Len(data.linkedin.rows)}

Select ==
    /\ pc = "select"
    /\ IF ~HasColumn(all_data.linkedin, "name")
       THEN /\ ui' = ui \cup {"exception: KeyError 'name'"}
            /\ pc' = "done"
            /\ person_name' = person_name
       ELSE IF PeopleList(all_data) = {}
       THEN /\ ui' = ui
            /\ pc' = "done"
            /\ person_name' = NoPerson
       ELSE /\ ui' = ui
            /\ pc' = "resolve"
            /\ person_name' \in PeopleList(all_data)
    /\ UNCHANGED <<session, inputs, all_data, resolved, email_prompt,
                   generated, requests>>

(* Lines 161-191 and 218-219.  The summary shown for a record reads the   *)
(* title, location and about columns of the profile row; the tables of    *)
(* the model always hold the non-key column that stands for them.         *)
LookUp ==
    /\ pc = "resolve"
    /\ resolved' = get_person_info(person_name, all_data)
    /\ IF resolved'.info # NoRecord
       THEN /\ ui' = ui \cup {"subheader: Person Summary"}
            /\ pc' = "email"
       ELSE /\ ui' = ui \cup {"error: Error retrieving comprehensive information",
                              "error: Could not retrieve comprehensive information"}
            /\ pc' = "done"
    /\ UNCHANGED <<session, inputs, all_data, person_name, email_prompt,
                   generated, requests>>

(* The button handled without the check of the instructions. *)
EmailUnchecked ==
    /\ pc = "email"
    /\ pc' = "done"
    /\ \E text \in Instructions, outcome \in ServiceOutcomes :
        /\ email_prompt' = text
        /\ IF clicked = "Generate Email"
           THEN LET call == generate_email(resolved.info, text, outcome)
                IN  /\ generated' = Generated(call, outcome)
                    /\ requests' = call.sent
                    /\ ui' = ui \cup {"subheader: Email Generation",
                                      "subheader: Generated Email"}
           ELSE /\ ui' = ui \cup {"subheader: Email Generation"}
                /\ UNCHANGED <<generated, requests>>
    /\ UNCHANGED <<session, inputs, all_data, person_name, resolved>>

(* Lines 193-217: the instructions and the Generate Email button. *)
Email ==
    /\ pc = "email"
    /\ pc' = "done"
    /\ \E text \in Instructions, outcome \in ServiceOutcomes :
        /\ email_prompt' = text
        /\ IF clicked = "Generate Email"
           THEN IF text # << >>
                THEN LET call == generate_email(resolved.info, text, outcome)
                     IN  /\ generated' = Generated(call, outcome)
                         /\ requests' = call.sent
                         /\ ui' = ui \cup {"subheader: Email Generation",
                                           "subheader: Generated Email"}
                ELSE /\ ui' = ui \cup {"subheader: Email Generation",
                                       "warning: Please enter a prompt for email generation."}
                     /\ UNCHANGED <<generated, requests>>
           ELSE /\ ui' = ui \cup {"subheader: Email Generation"}
                /\ UNCHANGED <<generated, requests>>
    /\ UNCHANGED <<session, inputs, all_data, person_name, resolved>>

Next == StartRun \/ Sidebar \/ Gate \/ Load \/ Select \/ LookUp \/ Email

Spec == InitMain /\ [][Next]_vars

(***************************************************************************)
(* Properties of get_person_info, stated on the tables themselves.         *)
(***************************************************************************)
RowsWith(table, column, value) ==
    {i \in 1..Len(table.rows) :
        /\ column \in DOMAIN table.rows[i]
        /\ table.rows[i][column] = value}

Least(S) == CHOOSE i \in S : \A j \in S : i <= j

PersonPresent == RowsWith(all_data.linkedin, "name", person_name) # {}

SelectedProfile ==
    all_data.linkedin.rows[Least(RowsWith(all_data.linkedin, "name", person_name))]

HasEmployer == PersonPresent /\ "company" \in DOMAIN SelectedProfile

Employer == SelectedProfile["company"]

CompanyRows == RowsWith(all_data.website, "company_name", Employer)

NewsRows == RowsWith(all_data.news, "related_company", Employer)

Returned == resolved.info # NoRecord

(* C1: for a person present in the profile table whose employer has a row *)
(* in the company table and a row in the news table, get_person_info      *)
(* returns a combined record whose company row's company_name and news    *)
(* row's related_company both equal the selected profile row's company.   *)
C1_JoinKeysEqual ==
    (pc = "resolved" /\ HasEmployer /\ CompanyRows # {} /\ NewsRows # {})
        => /\ Returned
           /\ resolved.info.person = SelectedProfile
           /\ resolved.info.company["company_name"] = resolved.info.person["company"]
           /\ resolved.info.news["related_company"] = resolved.info.person["company"]

C1_Witness ==
    /\ pc = "resolved" /\ HasEmployer /\ CompanyRows # {} /\ NewsRows # {}
    /\ Returned
    /\ \E i \in 1..Len(all_data.website.rows) :
          all_data.website.rows[i]["company_name"] # Employer
    /\ \E i \in 1..Len(all_data.news.rows) :
          all_data.news.rows[i]["related_company"] # Employer

C8_FirstMatch ==
    (pc = "resolved" /\ Returned)
        => /\ PersonPresent
           /\ resolved.info.person = SelectedProfile
           /\ CompanyRows # {}
           /\ resolved.info.company = all_data.website.rows[Least(CompanyRows)]
           /\ NewsRows # {}
           /\ resolved.info.news = all_data.news.rows[Least(NewsRows)]

C8_Witness ==
    /\ pc = "resolved" /\ Returned
    /\ Cardinality(RowsWith(all_data.linkedin, "name", person_name)) > 1
    /\ Cardinality(CompanyRows) > 1
    /\ Cardinality(NewsRows) > 1
    /\ resolved.info.person = all_data.linkedin.rows[1]
    /\ resolved.info.person # all_data.linkedin.rows[2]
    /\ resolved.info.company # all_data.website.rows[2]
    /\ resolved.info.news # all_data.news.rows[2]


(***************************************************************************)
(* Properties of generate_email.                                           *)
(***************************************************************************)
IsPrefix(head, text) ==
    /\ Len(head) <= Len(text)
    /\ SubSeq(text, 1, Len(head)) = head

Contains(text, part) ==
    \E k \in 0..(Len(text) - Len(part)) :
        SubSeq(text, k + 1, k + Len(part)) = part

ServiceFailed ==
    \/ generated.service.kind \in {"failed", "blocked"}
    \/ requests = << >>

(* C4: generate_email never raises; when the call to the generation       *)
(* service fails for any reason it returns a text that begins with the    *)
(* marker "Error generating email: ", and when the call succeeds it       *)
(* returns the text of the service's response unmodified.                 *)
C4_NeverRaises ==
    pc = "generated"
        => /\ ~generated.raised
           /\ ServiceFailed => IsPrefix(ErrorMarker, generated.text)
           /\ (requests # << >> /\ generated.service.kind = "text")
                 => generated.text = generated.service.text

C4_Witness ==
    /\ pc = "generated"
    /\ requests # << >>
    /\ generated.service.kind = "failed"
    /\ generated.service.text = <<"timed out">>
    /\ generated.text = <<"Error generating email: ", "timed out">>

(* C9: every request generate_email sends to the generation service       *)
(* carries, with the prompt, the fixed decoding parameters (temperature   *)
(* 0.7, top_p 0.95, top_k 40, max_output_tokens 1024).                    *)
C9_RequestsCarryConfig ==
    \A i \in 1..Len(requests) :
        requests[i].generation_config = generation_config

(* C10: for every combined record and every instructions text, the prompt *)
(* generate_email builds contains a section header for the person, the    *)
(* company and the news section, and contains the instructions unmodified *)
(* as one contiguous piece.                                               *)
C10_PromptContents ==
    (pc = "generated" /\ resolved.info # NoRecord)
        => /\ Len(requests) = 1
           /\ \A category \in {"PERSON", "COMPANY", "NEWS"} :
                 Contains(requests[1].contents,
                          <<"\n--- ", category, " INFORMATION ---\n">>)
           /\ Contains(requests[1].contents, email_prompt)

C10_Witness ==
    /\ pc = "generated"
    /\ resolved.info # NoRecord
    /\ Len(email_prompt) = 2
    /\ email_prompt[1] # email_prompt[2]
    /\ Len(requests) = 1
    /\ Contains(requests[1].contents, email_prompt)
    /\ Contains(requests[1].contents, <<"\n--- ", "NEWS", " INFORMATION ---\n">>)

(***************************************************************************)
(* Properties of the interactive flow.                                     *)
(***************************************************************************)
BehindGate ==
    \/ pc \in {"load", "select", "resolve", "email"}
    \/ all_data # NoData
    \/ resolved # NotCalled
    \/ requests # << >>

(* C5: no dataset load, no person lookup and no generation request        *)
(* happens while api_key_configured is false, and the flag becomes true   *)
(* only through the Configure API button with a non-empty key whose       *)
(* configuration call did not fail.                                       *)
C5_Gated ==
    /\ [](BehindGate => api_key_configured)
    /\ [][(~api_key_configured /\ api_key_configured')
            => /\ pc = "sidebar"
               /\ clicked = "Configure API"
               /\ api_key # << >>
               /\ ~configure_raises]_vars

C5_Witness ==
    /\ api_key_configured
    /\ pc = "done"
    /\ clicked = "Generate Email"
    /\ requests # << >>

(* C6: when generation is triggered with empty instructions the attempt   *)
(* is rejected with a warning and no request is sent to the generation    *)
(* service; a request is only ever sent with non-empty instructions.      *)
C6_EmptyInstructionsRejected ==
    /\ (/\ pc = "done"
        /\ "subheader: Email Generation" \in ui
        /\ clicked = "Generate Email"
        /\ email_prompt = << >>)
          => /\ "warning: Please enter a prompt for email generation." \in ui
             /\ requests = << >>
             /\ generated = NotGenerated
    /\ requests # << >>
          => /\ email_prompt # << >>
             /\ Contains(requests[1].contents, email_prompt)

C6_Witness ==
    /\ pc = "done"
    /\ "subheader: Email Generation" \in ui
    /\ clicked = "Generate Email"
    /\ email_prompt = << >>
    /\ "warning: Please enter a prompt for email generation." \in ui
    /\ requests = << >>

KeyColumn == [linkedin |-> "name", website |-> "company_name",
              news |-> "related_company"]

SourceBad(source) ==
    \/ files[source].status # "ok"
    \/ KeyColumn[source] \notin files[source].table.columns

(* C7: if any of the three sources is absent, unreadable or missing its   *)
(* key column, load_all_data fails as a whole and returns no tables; no   *)
(* later step works on a partial or key-less set of tables.               *)
C7_LoadAllOrNothing ==
    (\E source \in {"linkedin", "website", "news"} : SourceBad(source))
        => /\ all_data = NoData
           /\ pc \notin {"select", "resolve", "email"}

==========================================================================
